---- MODULE Spec2Model ----
(***************************************************************************)
(* Model of pymodbus/transport/message.py: the ModbusMessage layer and the *)
(* five framers (FrameRaw, FrameAscii, FrameRTU, FrameSocket, FrameTLS).   *)
(*                                                                         *)
(* Bytes objects are sequences of integers 0..255.  A Python exception is  *)
(* the field exc of an operation's result ("none" when it returns).        *)
(***************************************************************************)
EXTENDS Integers, Sequences, FiniteSets, TLC

(***************************************************************************)
(* Bounds of the model                                                     *)
(***************************************************************************)
\* longest run of garbage bytes put in front of a frame on the wire
MaxGarbage == 2
\* number of transport_send calls of one behaviour
MaxSent == 1

(***************************************************************************)
(* Program constants                                                       *)
(***************************************************************************)
\* FrameRaw.MIN_LEN
MIN_LEN == 5
\* struct.calcsize(">BH"): the exact buffer size struct.unpack accepts
HEADER_SIZE == 3
\* range of struct format "B"
U8_MAX == 255
\* range of struct format "H"
U16_MAX == 65535
\* number of targets of the tuple assignment in callback_data
UNPACK_TARGETS == 3

\* class FrameType
FrameType == {"raw", "ascii", "rtu", "socket", "tls"}

Min(a, b) == IF a < b THEN a ELSE b

(***************************************************************************)
(* struct.pack(">BH", dev_id, n) and struct.unpack(">BH", data)            *)
(***************************************************************************)
\* a range check that forgets the length: only the device id is checked
StructPackFits_NoLength(dev_id, n) ==
    0 <= dev_id /\ dev_id <= U8_MAX

\* struct.pack raises struct.error unless both numbers fit their format
StructPackFits(dev_id, n) ==
    /\ 0 <= dev_id /\ dev_id <= U8_MAX
    /\ 0 <= n /\ n <= U16_MAX

StructPack(dev_id, n) == <<dev_id, n \div 256, n % 256>>

\* the size check of struct.unpack_from: a longer buffer is accepted
StructUnpackFits_Prefix(data) == Len(data) >= HEADER_SIZE

\* struct.unpack raises struct.error unless the buffer has exactly 3 bytes
StructUnpackFits(data) == Len(data) = HEADER_SIZE

(***************************************************************************)
(* The framers.  A framer's fields are the record                          *)
(*   [is_server, data_len, msg_len, dev_id].                               *)
(* verifyFrame returns [exc, ret, framer]: the exception raised (or        *)
(* "none"), the boolean returned, and the framer's fields afterwards.      *)
(* build returns [exc, bytes].                                             *)
(***************************************************************************)
\* FrameRaw.__init__
FrameRaw_init(is_srv) ==
    [is_server |-> is_srv, data_len |-> 0, msg_len |-> 0, dev_id |-> 0]

\* a reset that forgets dev_id
FrameRaw_reset_KeepsDevId(f) ==
    [f EXCEPT !.data_len = 0, !.msg_len = 0]

\* FrameRaw.reset
FrameRaw_reset(f) ==
    [f EXCEPT !.data_len = 0, !.msg_len = 0, !.dev_id = 0]

\* verifyFrame that tests the length stored by the previous call and only
\* then stores the length of this buffer
FrameRaw_verifyFrame_StaleLen(f, data) ==
    LET f1 == [f EXCEPT !.data_len = Len(data)]
    IN  IF f.data_len < MIN_LEN
        THEN [exc |-> "none", ret |-> FALSE, framer |-> f1]
        ELSE IF ~StructUnpackFits(data)
        THEN [exc |-> "struct.error", ret |-> FALSE, framer |-> f1]
        ELSE LET f2 == [f1 EXCEPT !.dev_id = data[1],
                                  !.msg_len = data[2] * 256 + data[3]]
             IN  IF f2.data_len < f2.msg_len + MIN_LEN
                 THEN [exc |-> "none", ret |-> FALSE, framer |-> f2]
                 ELSE [exc |-> "none", ret |-> TRUE, framer |-> f2]

\* FrameRaw.verifyFrame
FrameRaw_verifyFrame(f, data) ==
    LET f1 == [f EXCEPT !.data_len = Len(data)]
    IN  IF f1.data_len < MIN_LEN
        THEN [exc |-> "none", ret |-> FALSE, framer |-> f1]
        ELSE IF ~StructUnpackFits(data)
        THEN [exc |-> "struct.error", ret |-> FALSE, framer |-> f1]
        ELSE LET f2 == [f1 EXCEPT !.dev_id = data[1],
                                  !.msg_len = data[2] * 256 + data[3]]
             IN  IF f2.data_len < f2.msg_len + MIN_LEN
                 THEN [exc |-> "none", ret |-> FALSE, framer |-> f2]
                 ELSE [exc |-> "none", ret |-> TRUE, framer |-> f2]

\* FrameAscii.verifyFrame, FrameRTU.verifyFrame, FrameSocket.verifyFrame and
\* FrameTLS.verifyFrame have the same body: self.dev_id = data[0]; return True
FrameByte0_verifyFrame(f, data) ==
    IF Len(data) = 0
    THEN [exc |-> "IndexError", ret |-> FALSE, framer |-> f]
    ELSE [exc |-> "none", ret |-> TRUE,
          framer |-> [f EXCEPT !.dev_id = data[1]]]

FrameAscii_verifyFrame(f, data) == FrameByte0_verifyFrame(f, data)

FrameRTU_verifyFrame(f, data) == FrameByte0_verifyFrame(f, data)

FrameSocket_verifyFrame(f, data) == FrameByte0_verifyFrame(f, data)

FrameTLS_verifyFrame(f, data) == FrameByte0_verifyFrame(f, data)

\* FrameRaw.build
FrameRaw_build(dev_id, data) ==
    IF StructPackFits(dev_id, Len(data))
    THEN [exc |-> "none", bytes |-> StructPack(dev_id, Len(data)) \o data]
    ELSE [exc |-> "struct.error", bytes |-> <<>>]

FrameAscii_build(dev_id, data) == [exc |-> "none", bytes |-> data]

FrameRTU_build(dev_id, data) == [exc |-> "none", bytes |-> data]

FrameSocket_build(dev_id, data) == [exc |-> "none", bytes |-> data]

FrameTLS_build(dev_id, data) == [exc |-> "none", bytes |-> data]

\* FrameRaw.getMessage, inherited by every framer: the slice
\* data[MIN_LEN:MIN_LEN+msg_len], which Python clamps to the buffer
FrameRaw_getMessage(f, data) ==
    SubSeq(data, MIN_LEN + 1, Min(Len(data), MIN_LEN + f.msg_len))

\* self.framer.verifyFrame / self.framer.build: dispatch on the framer
\* selected in ModbusMessage.__init__
verifyFrame(ft, f, data) ==
    CASE ft = "raw"    -> FrameRaw_verifyFrame(f, data)
      [] ft = "ascii"  -> FrameAscii_verifyFrame(f, data)
      [] ft = "rtu"    -> FrameRTU_verifyFrame(f, data)
      [] ft = "socket" -> FrameSocket_verifyFrame(f, data)
      [] ft = "tls"    -> FrameTLS_verifyFrame(f, data)

build(ft, dev_id, data) ==
    CASE ft = "raw"    -> FrameRaw_build(dev_id, data)
      [] ft = "ascii"  -> FrameAscii_build(dev_id, data)
      [] ft = "rtu"    -> FrameRTU_build(dev_id, data)
      [] ft = "socket" -> FrameSocket_build(dev_id, data)
      [] ft = "tls"    -> FrameTLS_build(dev_id, data)

(***************************************************************************)
(* ModbusMessage.callback_data as a function of the layer's fields and the *)
(* buffer: [exc, ret, framer, fwd], fwd being the sequence of              *)
(* callback_message calls made.  A forwarded message is                    *)
(* [dev_id, data, bytes]; bytes = FALSE says that the value handed up is   *)
(* the integer data[1] and not a bytes object (iterating bytes yields      *)
(* integers).  dev_ids is [none, ids]: none = TRUE is Python's None.       *)
(***************************************************************************)
Truthy(dev_ids) == ~dev_ids.none /\ Len(dev_ids.ids) > 0

InList(dev_id, dev_ids) == \E i \in 1..Len(dev_ids.ids) : dev_ids.ids[i] = dev_id

callback_data_result(ft, dev_ids, f, data) ==
    LET v == verifyFrame(ft, f, data)
    IN  IF v.exc # "none"
        THEN [exc |-> v.exc, ret |-> 0, framer |-> v.framer, fwd |-> <<>>]
        ELSE IF ~v.ret
        THEN [exc |-> "none", ret |-> 0, framer |-> v.framer, fwd |-> <<>>]
        ELSE LET m == FrameRaw_getMessage(v.framer, data)
             IN  IF Len(m) # UNPACK_TARGETS
                 THEN [exc |-> "ValueError", ret |-> 0,
                       framer |-> v.framer, fwd |-> <<>>]
                 ELSE IF Truthy(dev_ids) /\ ~InList(m[1], dev_ids)
                 THEN [exc |-> "none", ret |-> m[3],
                       framer |-> v.framer, fwd |-> <<>>]
                 ELSE [exc |-> "none", ret |-> m[3], framer |-> v.framer,
                       fwd |-> << [dev_id |-> m[1], data |-> <<m[2]>>,
                                   bytes |-> FALSE] >>]

(***************************************************************************)
(* CRC-16/Modbus, used to put well-formed and corrupted RTU frames on the  *)
(* wire.  message.py itself never computes a CRC.                          *)
(***************************************************************************)
RECURSIVE Xor(_, _)
Xor(a, b) ==
    IF a = 0 THEN b
    ELSE IF b = 0 THEN a
    ELSE ((a + b) % 2) + 2 * Xor(a \div 2, b \div 2)

RECURSIVE CrcShift(_, _)
CrcShift(crc, n) ==
    IF n = 0 THEN crc
    ELSE CrcShift(IF crc % 2 = 1 THEN Xor(crc \div 2, 40961)
                  ELSE crc \div 2, n - 1)

RECURSIVE CrcFrom(_, _, _)
CrcFrom(crc, data, i) ==
    IF i > Len(data) THEN crc
    ELSE CrcFrom(CrcShift(Xor(crc, data[i]), 8), data, i + 1)

\* initial value 0xFFFF, reflected polynomial 0xA001
CRC16(data) == CrcFrom(65535, data, 1)

\* address, function code and data followed by the CRC, low byte first
RtuFrame(adu) == adu \o <<CRC16(adu) % 256, CRC16(adu) \div 256>>

\* the trailing two bytes are the CRC of the bytes before them
RtuCrcOk(frame) ==
    /\ Len(frame) >= 4
    /\ RtuFrame(SubSeq(frame, 1, Len(frame) - 2)) = frame

Pow2(b) == CASE b = 0 -> 1 [] b = 1 -> 2 [] b = 2 -> 4 [] b = 3 -> 8
             [] b = 4 -> 16 [] b = 5 -> 32 [] b = 6 -> 64 [] b = 7 -> 128

\* frame with bit b (0..7) of its i-th byte flipped
FlipBit(frame, i, b) == [frame EXCEPT ![i] = Xor(frame[i], Pow2(b))]

(***************************************************************************)
(* Modbus ASCII framing and its LRC, used to put ASCII frames on the wire  *)
(* and to read them back.  message.py itself neither encodes nor decodes   *)
(* hexadecimal text and computes no LRC.                                   *)
(***************************************************************************)
RECURSIVE SumBytes(_, _)
SumBytes(data, i) ==
    IF i > Len(data) THEN 0 ELSE data[i] + SumBytes(data, i + 1)

\* two's complement, modulo 256, of the sum of the bytes
LRC(data) == (256 - (SumBytes(data, 1) % 256)) % 256

\* upper-case hexadecimal digit of n in 0..15: '0'..'9' or 'A'..'F'
HexChar(n) == IF n < 10 THEN 48 + n ELSE 55 + n

\* value of a hexadecimal digit of either case, -1 for any other character
HexVal(c) ==
    IF c >= 48 /\ c <= 57 THEN c - 48
    ELSE IF c >= 65 /\ c <= 70 THEN c - 55
    ELSE IF c >= 97 /\ c <= 102 THEN c - 87
    ELSE -1

\* ':' + two hexadecimal characters per byte + CR LF
AsciiEncode(data) ==
    <<58>>
    \o [i \in 1..(2 * Len(data)) |->
          IF i % 2 = 1 THEN HexChar(data[(i + 1) \div 2] \div 16)
          ELSE HexChar(data[i \div 2] % 16)]
    \o <<13, 10>>

\* ':' ... CR LF around an even, non-zero number of hexadecimal characters
IsAsciiFrame(frame) ==
    /\ Len(frame) >= 5
    /\ (Len(frame) - 3) % 2 = 0
    /\ frame[1] = 58
    /\ frame[Len(frame) - 1] = 13
    /\ frame[Len(frame)] = 10
    /\ \A i \in 2..(Len(frame) - 2) : HexVal(frame[i]) >= 0

\* the bytes between ':' and CR LF
AsciiDecode(frame) ==
    [i \in 1..((Len(frame) - 3) \div 2) |->
        16 * HexVal(frame[2 * i]) + HexVal(frame[2 * i + 1])]

\* the last decoded byte is the LRC of the decoded bytes before it
AsciiLrcOk(frame) ==
    LET dec == AsciiDecode(frame)
    IN  /\ Len(dec) >= 2
        /\ dec[Len(dec)] = LRC(SubSeq(dec, 1, Len(dec) - 1))

(***************************************************************************)
(* Inputs of the model                                                     *)
(***************************************************************************)
\* device ids of the frames on the wire and of the messages sent
DevIds == {1, 3}

\* payloads of the frames on the wire and of the messages sent
Payloads == {<<>>, <<2, 3>>, <<3, 1, 2>>}

\* dev_ids argument of ModbusMessage.__init__: None, [] and [1, 2]
DevIdLists ==
    { [none |-> TRUE, ids |-> <<>>],
      [none |-> FALSE, ids |-> <<>>],
      [none |-> FALSE, ids |-> <<1, 2>>] }

\* addr argument of message_send: None or a peer address
Addrs == {"None", "peer"}

\* k bytes of line noise
Garbage(k) == [i \in 1..k |-> 255]

\* the frames the peer's framer of the same type puts on the wire
Frames(ft) == { build(ft, d, p).bytes : d \in DevIds, p \in Payloads }

\* tid 0001, pid 0000, length 0003, unit id 01, PDU 02 03
MBAP_EXAMPLE == <<0, 1, 0, 0, 0, 3, 1, 2, 3>>

\* address 01, function code 02, data 03, CRC
RTU_EXAMPLE == RtuFrame(<<1, 2, 3>>)

\* RTU_EXAMPLE with one bit of its data or CRC field flipped
RtuFlipped == { FlipBit(RTU_EXAMPLE, i, b) : i \in 3..5, b \in 0..7 }

\* ":010203FA\r\n": address 01, function 02, data 03 and their LRC
ASCII_EXAMPLE == AsciiEncode(<<1, 2, 3>> \o <<LRC(<<1, 2, 3>>)>>)

\* ":010203F2\r\n": the same bytes followed by F2
ASCII_F2 == AsciiEncode(<<1, 2, 3, 242>>)

\* byte streams a peer may put on the wire of a channel of type ft
Streams(ft) ==
    Frames(ft)
    \cup { Garbage(k) \o f : k \in 1..MaxGarbage, f \in Frames(ft) }
    \cup { f \o g : f \in Frames(ft), g \in Frames(ft) }
    \cup { MBAP_EXAMPLE, RTU_EXAMPLE }
    \cup (IF ft = "rtu" THEN RtuFlipped ELSE {})
    \cup (IF ft = "ascii" THEN {ASCII_EXAMPLE, ASCII_F2} ELSE {})

(***************************************************************************)
(* State                                                                   *)
(***************************************************************************)
VARIABLES
    frameType,    \* frameType argument of ModbusMessage.__init__
    is_server,    \* is_server argument of ModbusMessage.__init__
    dev_ids,      \* self.dev_ids
    framer,       \* fields of self.framer
    wire,         \* bytes the peer sends on this channel
    pos,          \* number of bytes of wire the transport has received
    recv_buffer,  \* the transport's received, not yet consumed bytes
    consumed,     \* sum of the counts callback_data returned
    messages,     \* callback_message calls, in order
    sent,         \* transport_send calls, in order
    last          \* the latest call of the layer and its outcome

vars == <<frameType, is_server, dev_ids, framer, wire, pos, recv_buffer,
          consumed, messages, sent, last>>

NoCall ==
    [op |-> "none", dev_id |-> 0, data |-> <<>>, addr |-> "None",
     exc |-> "none", ret |-> 0, fwd |-> <<>>, tx |-> 0]

\* ModbusMessage.__init__ on a channel that has received nothing yet
InitLayer ==
    /\ frameType \in FrameType
    /\ is_server \in BOOLEAN
    /\ dev_ids \in DevIdLists
    /\ framer = FrameRaw_init(is_server)
    /\ pos = 0
    /\ recv_buffer = <<>>
    /\ consumed = 0
    /\ messages = <<>>
    /\ sent = <<>>
    /\ last = NoCall

Init ==
    /\ InitLayer
    /\ wire \in Streams(frameType)

\* data[cut:]
DropFirst(data, cut) == SubSeq(data, Min(cut, Len(data)) + 1, Len(data))

\* The transport receives the next n bytes of the wire (n = 0: an empty
\* datagram, or a new call on the remainder), appends them to its buffer,
\* calls callback_data with the whole buffer and drops the returned count.
callback_data(n) ==
    LET data == recv_buffer \o SubSeq(wire, pos + 1, pos + n)
        r == callback_data_result(frameType, dev_ids, framer, data)
    IN  /\ pos' = pos + n
        /\ framer' = r.framer
        /\ messages' = messages \o r.fwd
        /\ recv_buffer' = IF r.exc = "none" THEN DropFirst(data, r.ret)
                          ELSE data
        /\ consumed' = IF r.exc = "none" THEN consumed + r.ret ELSE consumed
        /\ last' = [NoCall EXCEPT !.op = "callback_data", !.data = data,
                                  !.exc = r.exc, !.ret = r.ret,
                                  !.fwd = r.fwd]
        /\ UNCHANGED <<frameType, is_server, dev_ids, wire, sent>>

DataReceived == \E n \in 0..(Len(wire) - pos) : callback_data(n)

\* ModbusMessage.reset
reset ==
    /\ framer' = FrameRaw_reset(framer)
    /\ last' = [NoCall EXCEPT !.op = "reset"]
    /\ UNCHANGED <<frameType, is_server, dev_ids, wire, pos, recv_buffer,
                   consumed, messages, sent>>

\* message_send that calls transport_send(send_data) and forgets addr
message_send_NoAddr(dev_id, data, addr) ==
    LET b == build(frameType, dev_id, data)
    IN  /\ Len(sent) < MaxSent
        /\ sent' = IF b.exc = "none"
                   THEN Append(sent, [data |-> b.bytes, addr |-> "None"])
                   ELSE sent
        /\ last' = [NoCall EXCEPT !.op = "message_send", !.dev_id = dev_id,
                                  !.data = data, !.addr = addr,
                                  !.exc = b.exc,
                                  !.tx = IF b.exc = "none" THEN 1 ELSE 0]
        /\ UNCHANGED <<frameType, is_server, dev_ids, framer, wire, pos,
                       recv_buffer, consumed, messages>>

\* ModbusMessage.message_send; transport_send records its arguments
message_send(dev_id, data, addr) ==
    LET b == build(frameType, dev_id, data)
    IN  /\ Len(sent) < MaxSent
        /\ sent' = IF b.exc = "none"
                   THEN Append(sent, [data |-> b.bytes, addr |-> addr])
                   ELSE sent
        /\ last' = [NoCall EXCEPT !.op = "message_send", !.dev_id = dev_id,
                                  !.data = data, !.addr = addr,
                                  !.exc = b.exc,
                                  !.tx = IF b.exc = "none" THEN 1 ELSE 0]
        /\ UNCHANGED <<frameType, is_server, dev_ids, framer, wire, pos,
                       recv_buffer, consumed, messages>>

\* the upper layer sends a short message while the channel receives
SendPayloads == {<<2, 3>>}

Send == \E d \in DevIds, p \in SendPayloads, a \in Addrs : message_send(d, p, a)

Next == DataReceived \/ reset \/ Send

Spec == Init /\ [][Next]_vars

(***************************************************************************)
(* The send path alone, on an idle channel, with arguments at and beyond   *)
(* the limits of the formats of struct.pack(">BH", ...).                   *)
(***************************************************************************)
Zeros(n) == [i \in 1..n |-> 0]

LongPayloads == {Zeros(U16_MAX), Zeros(U16_MAX + 1)}

EdgeDevIds == {1, U8_MAX + 1}

InitSend ==
    /\ InitLayer
    /\ wire = <<>>

SendEdge ==
    \E d \in EdgeDevIds, p \in SendPayloads \cup LongPayloads :
        message_send(d, p, "None")

NextSend == SendEdge \/ reset

SpecSend == InitSend /\ [][NextSend]_vars

(***************************************************************************)
(* Vocabulary of the properties                                            *)
(***************************************************************************)
\* the call callback_message(d, p) with a bytes payload
Msg(d, p) == [dev_id |-> d, data |-> p, bytes |-> TRUE]

\* a payload every format admits: a function code and at least one more byte
ValidPayload(p) == Len(p) >= 2 /\ Len(p) <= U16_MAX

\* the accept list lets device d through
Accepts(d) == ~Truthy(dev_ids) \/ InList(d, dev_ids)

\* the frame build makes of (d, p) for this channel's frame type
Frame(d, p) == build(frameType, d, p).bytes

\* the latest call of the layer was callback_data
Ingested == last.op = "callback_data"

\* the whole wire has been delivered and the latest callback_data call
\* made no progress: the transport's receive loop has come to rest
AtRest ==
    /\ Ingested
    /\ pos = Len(wire)
    /\ (last.exc # "none" \/ last.ret = 0)

(***************************************************************************)
(* C1  Round-trip: callback_data on build(device_id, payload) forwards     *)
(* exactly (device_id, payload) to callback_message and returns the full   *)
(* length of the built frame.                                              *)
(***************************************************************************)
C1_RoundTrip ==
    \A d \in DevIds, p \in Payloads :
        (/\ Ingested
         /\ ValidPayload(p)
         /\ Accepts(d)
         /\ last.data = Frame(d, p))
        => (/\ last.exc = "none"
            /\ last.fwd = <<Msg(d, p)>>
            /\ last.ret = Len(Frame(d, p)))

(***************************************************************************)
(* C2  Partial delivery invariance: a valid frame delivered in any chunks  *)
(* yields the one message and the consumed count of the frame delivered    *)
(* whole, and every call made before the frame is complete returns 0 and   *)
(* forwards nothing.                                                       *)
(***************************************************************************)
C2_PartialDelivery ==
    \A d \in DevIds, p \in Payloads :
        (/\ ValidPayload(p)
         /\ Accepts(d)
         /\ wire = Frame(d, p))
        => (/\ (Ingested /\ pos < Len(wire))
                => (last.exc = "none" /\ last.ret = 0 /\ last.fwd = <<>>)
            /\ AtRest
                => (messages = <<Msg(d, p)>> /\ consumed = Len(wire)))

(***************************************************************************)
(* C3  Resync progress: on k garbage bytes followed by one valid frame the *)
(* receive loop comes to rest only after it has forwarded the frame and    *)
(* advanced by exactly k plus the frame's length; no call fails.           *)
(***************************************************************************)
C3_ResyncProgress ==
    \A k \in 1..MaxGarbage, d \in DevIds, p \in Payloads :
        (/\ ValidPayload(p)
         /\ Accepts(d)
         /\ wire = Garbage(k) \o Frame(d, p))
        => (/\ Ingested => last.exc = "none"
            /\ AtRest
                => (messages = <<Msg(d, p)>> /\ consumed = k + Len(Frame(d, p))))

(***************************************************************************)
(* C4  Accept-list filtering: callback_data on a complete valid frame      *)
(* returns the frame's length; it calls callback_message once with         *)
(* (device_id, payload), except that it makes no call when the accept list *)
(* is non-empty and lacks the device id.                                   *)
(***************************************************************************)
C4_AcceptList ==
    \A d \in DevIds, p \in Payloads :
        (/\ Ingested
         /\ ValidPayload(p)
         /\ last.data = Frame(d, p))
        => (/\ last.exc = "none"
            /\ last.ret = Len(Frame(d, p))
            /\ last.fwd = IF Truthy(dev_ids) /\ ~InList(d, dev_ids)
                          THEN <<>> ELSE <<Msg(d, p)>>)

(***************************************************************************)
(* C5  callback_data never fails: for every frame type and every buffer it *)
(* returns a consumed count and no exception reaches the transport.        *)
(***************************************************************************)
C5_NeverRaises ==
    Ingested => (last.exc = "none" /\ last.ret >= 0)

(***************************************************************************)
(* C6  Ordering: when the wire holds two valid frames one after the other, *)
(* the messages forwarded are, in wire order, a prefix of the two frames'  *)
(* messages, and both of them once the receive loop has come to rest.      *)
(***************************************************************************)
C6_Ordering ==
    \A d1 \in DevIds, d2 \in DevIds, p1 \in Payloads, p2 \in Payloads :
        (/\ ValidPayload(p1) /\ ValidPayload(p2)
         /\ Accepts(d1) /\ Accepts(d2)
         /\ wire = Frame(d1, p1) \o Frame(d2, p2))
        => (/\ messages \in {<<>>, <<Msg(d1, p1)>>, <<Msg(d1, p1), Msg(d2, p2)>>}
            /\ AtRest => messages = <<Msg(d1, p1), Msg(d2, p2)>>)

MbapLength(data) == data[5] * 256 + data[6]

C8_SocketDecode ==
    (Ingested /\ frameType = "socket")
    => LET data == last.data
       IN  /\ last.exc = "none"
           /\ IF Len(data) < 9 \/ Len(data) < 6 + MbapLength(data)
              THEN last.ret = 0 /\ last.fwd = <<>>
              ELSE MbapLength(data) >= 2
                   => /\ last.ret = 6 + MbapLength(data)
                      /\ Accepts(data[7])
                         => last.fwd =
                              <<Msg(data[7],
                                    SubSeq(data, 8, 6 + MbapLength(data)))>>
           /\ data = MBAP_EXAMPLE
              => (last.ret = 9 /\ last.fwd = <<Msg(1, <<2, 3>>)>>)

(***************************************************************************)
(* C9  Socket (MBAP) build: the bytes handed to transport_send are the     *)
(* transaction id, protocol id 0000, the big-endian length 1+len(payload), *)
(* the unit id byte equal to device_id, then the payload; for device 1 and *)
(* payload 02 03 the bytes after the transaction id are 00 00 00 03 01 02  *)
(* 03.                                                                     *)
(***************************************************************************)
C9_SocketBuild ==
    (last.op = "message_send" /\ last.tx = 1 /\ frameType = "socket")
    => LET out == sent[Len(sent)].data
           n == 1 + Len(last.data)
       IN  /\ Len(out) = 6 + n
           /\ SubSeq(out, 3, Len(out))
                = <<0, 0, n \div 256, n % 256, last.dev_id>> \o last.data
           /\ (last.dev_id = 1 /\ last.data = <<2, 3>>)
              => SubSeq(out, 3, Len(out)) = <<0, 0, 0, 3, 1, 2, 3>>

(***************************************************************************)
(* C10  RTU checksum sensitivity: a message is forwarded only from a       *)
(* buffer whose trailing two bytes are the CRC-16 of the bytes before      *)
(* them; on a valid RTU frame with one bit of its data or CRC field        *)
(* flipped, callback_data returns a skip of at least 1 and forwards        *)
(* nothing.                                                                *)
(***************************************************************************)
C10_RtuChecksum ==
    (Ingested /\ frameType = "rtu")
    => /\ last.fwd # <<>>
          => \E n \in 4..Len(last.data) : RtuCrcOk(SubSeq(last.data, 1, n))
       /\ (last.data \in RtuFlipped /\ ~RtuCrcOk(last.data))
          => (last.exc = "none" /\ last.ret >= 1 /\ last.fwd = <<>>)

(***************************************************************************)
(* C11  ASCII LRC validation: an ASCII frame is decoded and forwarded if   *)
(* and only if its last decoded byte is the two's complement, modulo 256,  *)
(* of the sum of the decoded bytes before it; otherwise it is rejected     *)
(* without an error and nothing is forwarded.  ":010203F2" is accepted     *)
(* exactly when F2 is that value for 01 02 03.                             *)
(***************************************************************************)
C11_AsciiLrc ==
    (Ingested /\ frameType = "ascii" /\ IsAsciiFrame(last.data))
    => LET dec == AsciiDecode(last.data)
       IN  /\ last.exc = "none"
           /\ (AsciiLrcOk(last.data) /\ Accepts(dec[1]))
              => last.fwd = <<Msg(dec[1], SubSeq(dec, 2, Len(dec) - 1))>>
           /\ ~AsciiLrcOk(last.data) => last.fwd = <<>>
           /\ last.data = ASCII_F2
              => (last.fwd # <<>> <=> LRC(<<1, 2, 3>>) = 242)

(***************************************************************************)
(* C12  Need-more: on a buffer shorter than the framer's minimum length,   *)
(* or on a Raw buffer shorter than its header plus the declared payload,   *)
(* callback_data returns 0, calls callback_message not at all, and the     *)
(* transport discards nothing.                                             *)
(***************************************************************************)
\* minimum lengths the formats document: Raw header 3, Socket 9, RTU 4,
\* TLS 2, ASCII ':' + address, function and LRC in hexadecimal + CR LF
DocumentedMin(ft) ==
    CASE ft = "raw"    -> HEADER_SIZE
      [] ft = "ascii"  -> 9
      [] ft = "rtu"    -> 4
      [] ft = "socket" -> 9
      [] ft = "tls"    -> 2

\* the buffer cannot hold a whole frame yet
Incomplete(ft, data) ==
    \/ Len(data) < DocumentedMin(ft)
    \/ ft = "raw" /\ Len(data) < HEADER_SIZE + data[2] * 256 + data[3]

C12_NeedMore ==
    (Ingested /\ Incomplete(frameType, last.data))
    => /\ last.exc = "none"
       /\ last.ret = 0
       /\ last.fwd = <<>>
       /\ recv_buffer = last.data

StartsWith(data, frame) ==
    /\ Len(data) > Len(frame)
    /\ SubSeq(data, 1, Len(frame)) = frame

C14_OneFramePerCall ==
    Ingested
    => /\ Len(last.fwd) <= 1
       /\ \A d \in DevIds, p \in Payloads :
            (/\ frameType = "raw"
             /\ ValidPayload(p)
             /\ StartsWith(last.data, Frame(d, p)))
            => (/\ last.exc = "none"
                /\ last.ret = Len(Frame(d, p))
                /\ Accepts(d) => last.fwd = <<Msg(d, p)>>)

(***************************************************************************)
(* C15  message_send(dev_id, data, addr) whose build returns calls         *)
(* transport_send exactly once, with the bytes build(dev_id, data)         *)
(* returned and with addr, and changes nothing else of the layer.          *)
(***************************************************************************)
C15_SendOnce ==
    [][(last'.op = "message_send" /\ last'.exc = "none")
       => (/\ sent' = Append(sent,
                        [data |-> build(frameType, last'.dev_id,
                                        last'.data).bytes,
                         addr |-> last'.addr])
           /\ UNCHANGED <<framer, dev_ids, frameType, recv_buffer, messages,
                          consumed>>)]_vars

\* a message has been sent to a peer address on a Raw channel
C15_Witness ==
    /\ last.op = "message_send"
    /\ last.addr = "peer"
    /\ frameType = "raw"
    /\ sent = <<[data |-> <<1, 0, 2, 2, 3>>, addr |-> "peer"]>>

(***************************************************************************)
(* C16  Raw wire layout: build emits the device id byte, the payload       *)
(* length as a big-endian 16-bit integer, then the payload; a buffer whose *)
(* header declares length L yields 0 while it holds fewer than 3+L bytes,  *)
(* and otherwise device id = byte 0, payload = bytes 3..3+L-1 and          *)
(* consumed = 3+L.                                                         *)
(***************************************************************************)
\* the big-endian length field at offset 1 of a Raw header
RawLength(data) == data[2] * 256 + data[3]

C16_RawLayout ==
    frameType = "raw"
    => /\ (last.op = "message_send" /\ last.tx = 1)
          => sent[Len(sent)].data
               = <<last.dev_id, Len(last.data) \div 256,
                   Len(last.data) % 256>> \o last.data
       /\ (Ingested /\ Len(last.data) >= HEADER_SIZE)
          => LET data == last.data
                 L == RawLength(data)
             IN  /\ last.exc = "none"
                 /\ IF Len(data) < HEADER_SIZE + L
                    THEN last.ret = 0 /\ last.fwd = <<>>
                    ELSE /\ last.ret = HEADER_SIZE + L
                         /\ Accepts(data[1])
                            => last.fwd =
                                 <<Msg(data[1],
                                       SubSeq(data, HEADER_SIZE + 1,
                                              HEADER_SIZE + L))>>

(***************************************************************************)
(* C17  TLS framing: callback_data on a buffer of at least 2 bytes         *)
(* forwards the entire buffer as the payload and returns its length, and   *)
(* on a shorter buffer returns 0; build returns the payload unchanged.     *)
(***************************************************************************)
C17_TlsFraming ==
    frameType = "tls"
    => /\ (last.op = "message_send" /\ last.tx = 1)
          => sent[Len(sent)].data = last.data
       /\ Ingested
          => /\ last.exc = "none"
             /\ IF Len(last.data) >= 2
                THEN /\ last.ret = Len(last.data)
                     /\ ~Truthy(dev_ids)
                        => (/\ Len(last.fwd) = 1
                            /\ last.fwd[1].bytes
                            /\ last.fwd[1].data = last.data)
                ELSE last.ret = 0 /\ last.fwd = <<>>

(***************************************************************************)
(* C18  reset() returns the framer's data_len, msg_len and dev_id to their *)
(* freshly constructed values and leaves the frame type, the role, the     *)
(* accept list and everything outside the framer unchanged, so the layer   *)
(* is in the state of a newly constructed one.                             *)
(***************************************************************************)
C18_Reset ==
    [][last'.op = "reset"
       => (/\ framer' = FrameRaw_init(is_server)
           /\ UNCHANGED <<frameType, is_server, dev_ids, recv_buffer,
                          messages, sent, consumed>>)]_vars

\* reset has run after a framer other than Raw stored a non-zero first byte
C18_Witness ==
    /\ last.op = "reset"
    /\ frameType # "raw"
    /\ Len(recv_buffer) > 0
    /\ recv_buffer[1] # 0
    /\ framer.dev_id = 0

(***************************************************************************)
(* C19  No retained bytes: the outcome of a callback_data call (exception, *)
(* count returned, messages forwarded) is the outcome of the same call on  *)
(* a newly constructed layer of the same frame type and accept list,       *)
(* whatever calls ran before; message_send changes nothing that            *)
(* callback_data reads.                                                    *)
(***************************************************************************)
Outcome(r) == [exc |-> r.exc, ret |-> r.ret, fwd |-> r.fwd]

C19_NoRetainedBytes ==
    [][/\ last'.op = "callback_data"
          => Outcome(last')
               = Outcome(callback_data_result(frameType, dev_ids,
                                              FrameRaw_init(is_server),
                                              last'.data))
       /\ last'.op = "message_send"
          => UNCHANGED <<framer, frameType, dev_ids, is_server>>]_vars

\* callback_data has run on a Raw buffer of 5 or more bytes after a send
C19_Witness ==
    /\ Ingested
    /\ frameType = "raw"
    /\ Len(last.data) >= MIN_LEN
    /\ framer.data_len = Len(last.data)
    /\ sent # <<>>

(***************************************************************************)
(* C20  The accept list applies only in the server role: a layer built as  *)
(* a client forwards every valid frame whatever its device id, also when   *)
(* a non-empty list of device ids was passed at construction.              *)
(***************************************************************************)
C20_ClientForwardsAll ==
    \A d \in DevIds, p \in Payloads :
        (/\ ~is_server
         /\ Truthy(dev_ids)
         /\ Ingested
         /\ ValidPayload(p)
         /\ last.data = Frame(d, p))
        => (last.exc = "none" /\ last.fwd = <<Msg(d, p)>>)

====
